---- MODULE Spec2Model ----
(***************************************************************************)
(* A model of the vortex chunked IPC writer/reader (vortex-ipc) and of the *)
(* compute kernels of vortex-array that it relies on.                      *)
(*                                                                         *)
(* Arrays are sequences; Rust's 0-based positions are kept as values and   *)
(* translated to TLA+'s 1-based sequences only at the point of access.     *)
(* Option<T> is a sequence of length 0 (None) or 1 (Some).                 *)
(***************************************************************************)
EXTENDS Integers, Sequences, FiniteSets, TLC

\* ------------------------------------------------------------------ bounds
\* chunks per written array, rows per chunk, entries of an index array
MaxChunks == 3
MaxChunkLen == 2
MaxIndices == 3
\* rows of an array handed to a compute kernel on its own
MaxLen == 2

\* Sizes of the framed messages the MessageWriter emits (all positive).
ViewCtxMsgLen == 2
DTypeMsgLen == 1
ChunkHdrLen == 1

VARIABLES
    msgs_pos,        \* ArrayWriter.msgs.tell()
    file,            \* the bytes written, as the sequence of framed messages
    view_ctx_range,  \* ArrayWriter.view_ctx_range : Option<ByteRange>
    array_layouts,   \* ArrayWriter.array_layouts
    writing,         \* the locals of a write_array_stream in progress (Option)
    reader,          \* the ChunkedArrayReader (Option)
    pc,              \* where the take_rows call on the reader stands
    indices,         \* take_rows: the indices argument
    coalesced,       \* take_rows_strict_sorted: coalesced_chunks
    range_idx,       \* take_rows_strict_sorted: range_idx of the loop
    chunks,          \* take_rows_strict_sorted: the chunks collected so far
    is_strict_sorted, \* take_rows: compute_is_strict_sorted() of the indices (Option)
    trace,           \* history: the read_at calls and stream take_rows calls
    result,          \* what the last take_rows call returned (Option)
    k_pc,            \* a compute kernel called on its own: "call", "done", "panicked"
    k_in,            \* its arguments
    k_out            \* what it returned

vars == <<msgs_pos, file, view_ctx_range, array_layouts, writing, reader, pc,
          indices, is_strict_sorted, coalesced, range_idx, chunks, trace, result,
          k_pc, k_in, k_out>>

writerVars == <<msgs_pos, file, view_ctx_range, array_layouts, writing>>
callVars == <<pc, indices, is_strict_sorted, coalesced, range_idx, chunks, trace, result>>
kernelVars == <<k_pc, k_in, k_out>>

\* ------------------------------------------------------------- sequences
Last(s) == s[Len(s)]

RECURSIVE SortedSeq(_)
SortedSeq(S) ==
    IF S = {} THEN <<>>
    ELSE LET m == CHOOSE x \in S : \A y \in S : x <= y
         IN <<m>> \o SortedSeq(S \ {m})

RECURSIVE Flatten(_)
Flatten(ss) == IF ss = <<>> THEN <<>> ELSE Head(ss) \o Flatten(Tail(ss))

RECURSIVE SumLens(_)
SumLens(ss) == IF ss = <<>> THEN 0 ELSE Len(Head(ss)) + SumLens(Tail(ss))

IsStrictSorted(s) == \A i \in 1..Len(s) - 1 : s[i] < s[i + 1]

\* ------------------------------------------------------------ the writer
\* The values the test harness puts in chunk k (1-based) of n rows: distinct
\* over the whole array, so a value names the row it was written at.
ChunkValues(k, n) == [i \in 1..n |-> 10 * k + (i - 1)]

Message(kind, begin, end, data) ==
    [kind |-> kind, begin |-> begin, end |-> end, data |-> data]

\* ArrayWriter::new
WriterInit ==
    /\ msgs_pos = 0
    /\ file = <<>>
    /\ view_ctx_range = <<>>
    /\ array_layouts = <<>>
    /\ writing = <<>>

\* ArrayWriter::write_context
WriteContext ==
    /\ reader = <<>> /\ writing = <<>>
    /\ view_ctx_range = <<>>
    /\ LET begin == msgs_pos
           end == msgs_pos + ViewCtxMsgLen
       IN /\ msgs_pos' = end
          /\ file' = Append(file, Message("view_context", begin, end, <<>>))
          /\ view_ctx_range' = <<[begin |-> begin, end |-> end]>>
    /\ UNCHANGED <<array_layouts, writing, reader>>
    /\ UNCHANGED callVars
    /\ UNCHANGED kernelVars

\* ArrayWriter::write_array_stream up to the first poll of the stream:
\* write_dtype, then the initial locals of write_array_chunks.
WriteDTypeStep ==
    /\ reader = <<>> /\ writing = <<>>
    /\ LET begin == msgs_pos
           end == msgs_pos + DTypeMsgLen
       IN /\ msgs_pos' = end
          /\ file' = Append(file, Message("dtype", begin, end, <<>>))
          /\ writing' = <<[dtype |-> [begin |-> begin, end |-> end],
                           byte_offsets |-> <<end>>,
                           row_offsets |-> <<0>>,
                           row_offset |-> 0]>>
    /\ UNCHANGED <<view_ctx_range, array_layouts, reader>>
    /\ UNCHANGED callVars
    /\ UNCHANGED kernelVars

\* The one array the reader is built over.
WriteDType ==
    /\ array_layouts = <<>>
    /\ WriteDTypeStep

\* WriteChunkStep with row_offset pushed before the chunk's length is added.
WriteChunkStepPushBeforeAdd(w, n) ==
    LET row_offset == w.row_offset + n
        k == Len(w.row_offsets)
        begin == msgs_pos
        end == msgs_pos + ChunkHdrLen + n
    IN /\ msgs_pos' = end
       /\ file' = Append(file, Message("chunk", begin, end, ChunkValues(k, n)))
       /\ writing' = <<[w EXCEPT !.row_offset = row_offset,
                                 !.row_offsets = Append(@, w.row_offset),
                                 !.byte_offsets = Append(@, end)]>>

\* One iteration of the loop of write_array_chunks, for a chunk of n rows.
WriteChunkStep(w, n) ==
    LET row_offset == w.row_offset + n
        k == Len(w.row_offsets)
        begin == msgs_pos
        end == msgs_pos + ChunkHdrLen + n
    IN /\ msgs_pos' = end
       /\ file' = Append(file, Message("chunk", begin, end, ChunkValues(k, n)))
       /\ writing' = <<[w EXCEPT !.row_offset = row_offset,
                                 !.row_offsets = Append(@, row_offset),
                                 !.byte_offsets = Append(@, end)]>>

WriteChunk ==
    /\ reader = <<>> /\ writing # <<>>
    /\ Len(writing[1].row_offsets) <= MaxChunks
    /\ \E n \in 0..MaxChunkLen : WriteChunkStep(writing[1], n)
    /\ UNCHANGED <<view_ctx_range, array_layouts, reader>>
    /\ UNCHANGED callVars
    /\ UNCHANGED kernelVars

\* The stream ends: write_array_chunks returns the ChunkLayout and
\* write_array_stream pushes the ArrayLayout.
FinishArray ==
    /\ reader = <<>> /\ writing # <<>>
    /\ array_layouts' = Append(array_layouts,
            [dtype |-> writing[1].dtype,
             chunks |-> [byte_offsets |-> writing[1].byte_offsets,
                         row_offsets |-> writing[1].row_offsets]])
    /\ writing' = <<>>
    /\ UNCHANGED <<msgs_pos, file, view_ctx_range, reader>>
    /\ UNCHANGED callVars
    /\ UNCHANGED kernelVars

\* The array as materialized: the concatenation of the chunks written.
Materialized ==
    Flatten([i \in 1..Len(file) |-> file[i].data])

\* --------------------------------------------------- compute kernels
\* take_primitive indexes the slice: an index past the end panics.
TakeInBounds(array, idx) == \A j \in 1..Len(idx) : idx[j] < Len(array)

\* take_primitive with every index moved one up (wrapping at the end).
take_primitive_off_by_one(array, idx) ==
    [j \in 1..Len(idx) |-> array[((idx[j] + 1) % Len(array)) + 1]]

\* take_primitive as the iterator computes it: one element per index, in the
\* order of the indices.
RECURSIVE take_primitive(_, _)
take_primitive(array, idx) ==
    IF idx = <<>> THEN <<>>
    ELSE <<array[Head(idx) + 1]>> \o take_primitive(array, Tail(idx))

\* compute::search_sorted on an ascending array: Left is the position of the
\* first element >= value, Right the position of the first element > value.
search_sorted(a, value, side) ==
    IF side = "Left"
    THEN Cardinality({i \in 1..Len(a) : a[i] < value})
    ELSE Cardinality({i \in 1..Len(a) : a[i] <= value})

\* compute::slice(a, start, stop): the elements at positions [start, stop).
slice(a, start, stop) == SubSeq(a, start + 1, stop)

\* compute::scalar_subtract::subtract_scalar
subtract_scalar(a, s) == [j \in 1..Len(a) |-> a[j] - s]

\* <[u64]>::binary_search: Ok(position of a match), any match when several
\* elements are equal, else Err(insertion point).
binary_search(s, x) ==
    LET hits == {i \in 0..Len(s) - 1 : s[i + 1] = x}
    IN IF hits # {}
       THEN {[found |-> TRUE, at |-> i] : i \in hits}
       ELSE {[found |-> FALSE,
              at |-> Cardinality({i \in 1..Len(s) : s[i] < x})]}

\* ------------------------------------------------------------ find_chunks
\* ChunkIdxChoices with the insertion point taken as it is (no x - 1).
ChunkIdxChoicesInsertionPoint(row_offsets, idx) ==
    {r.at : r \in binary_search(row_offsets, idx)}

\* binary_search(idx).unwrap_or_else(|x| x - 1): -1 stands for the
\* underflow of 0 - 1.
ChunkIdxChoices(row_offsets, idx) ==
    {IF r.found THEN r.at ELSE r.at - 1 : r \in binary_search(row_offsets, idx)}

\* One chunk_idx per index position, as the loop's binary searches return.
RECURSIVE ChunkChoices(_, _)
ChunkChoices(row_offsets, ix) ==
    IF ix = <<>> THEN {<<>>}
    ELSE {<<c>> \o rest : c \in ChunkIdxChoices(row_offsets, Head(ix)),
                          rest \in ChunkChoices(row_offsets, Tail(ix))}

\* ChunkIndicesOf with the map's keys left unsorted (here: descending).
ChunkIndicesOfUnsortedKeys(f) ==
    LET keys == SortedSeq({f[p] : p \in DOMAIN f})
        n == Len(keys)
        Entry(c) ==
            LET ps == {p \in DOMAIN f : f[p] = c}
                first == CHOOSE p \in ps : \A q \in ps : p <= q
                last == CHOOSE p \in ps : \A q \in ps : q <= p
            IN [chunk_idx |-> c, indices_start |-> first - 1, indices_stop |-> last]
    IN [i \in 1..n |-> Entry(keys[n + 1 - i])]

\* The HashMap filled by the loop, then read in ascending key order:
\* or_insert at a chunk's first position, and_modify at every later one.
ChunkIndicesOf(f) ==
    LET keys == SortedSeq({f[p] : p \in DOMAIN f})
        Entry(c) ==
            LET ps == {p \in DOMAIN f : f[p] = c}
                first == CHOOSE p \in ps : \A q \in ps : p <= q
                last == CHOOSE p \in ps : \A q \in ps : q <= p
            IN [chunk_idx |-> c, indices_start |-> first - 1, indices_stop |-> last]
    IN [i \in 1..Len(keys) |-> Entry(keys[i])]

FindChunksErr(e) == [kind |-> "err", chunks |-> <<>>, err |-> e]

\* find_chunks with the bounds check off by one (last_idx > num_rows).
find_chunks_bound_off_by_one(row_offsets, ix) ==
    IF ix # <<>> /\ row_offsets # <<>> /\ Last(ix) > Last(row_offsets)
    THEN {FindChunksErr("Index out of bounds")}
    ELSE {IF \E p \in DOMAIN f : f[p] < 0
          THEN [kind |-> "panic", chunks |-> <<>>, err |-> "subtract with overflow"]
          ELSE [kind |-> "ok", chunks |-> ChunkIndicesOf(f), err |-> ""] :
          f \in ChunkChoices(row_offsets, ix)}

find_chunks(row_offsets, ix) ==
    IF ix # <<>> /\ row_offsets # <<>> /\ Last(ix) >= Last(row_offsets)
    THEN {FindChunksErr("Index out of bounds")}
    ELSE {IF \E p \in DOMAIN f : f[p] < 0
          THEN [kind |-> "panic", chunks |-> <<>>, err |-> "subtract with overflow"]
          ELSE [kind |-> "ok", chunks |-> ChunkIndicesOf(f), err |-> ""] :
          f \in ChunkChoices(row_offsets, ix)}

\* ChunkedArrayReader::coalesce_chunks: every chunk is a range of its own.
coalesce_chunks(chunk_idxs) == [i \in 1..Len(chunk_idxs) |-> <<chunk_idxs[i]>>]

\* ------------------------------------------------ the chunked reader
\* ChunkedArrayReaderBuilder::build over the first array layout, as the
\* reader's test builds it.
BuildReader ==
    /\ reader = <<>> /\ writing = <<>>
    /\ array_layouts # <<>>
    /\ reader' = <<[row_offsets |-> array_layouts[1].chunks.row_offsets,
                    byte_offsets |-> array_layouts[1].chunks.byte_offsets,
                    dtype |-> array_layouts[1].dtype,
                    view_context |-> view_ctx_range]>>
    /\ UNCHANGED writerVars
    /\ UNCHANGED callVars
    /\ UNCHANGED kernelVars

NumRows == Last(reader[1].row_offsets)

\* The index arrays a caller passes: every strict-sorted array of at most
\* MaxIndices entries over the rows and the first row past the end, and the
\* arrays of two entries that are not strict-sorted.
IndexInputs ==
    {SortedSeq(S) : S \in {T \in SUBSET (0..NumRows) : Cardinality(T) <= MaxIndices}}
    \cup {<<a, b>> : a \in 0..NumRows, b \in 0..NumRows}

\* VortexReadAt::read_at_into(pos, buffer of len bytes) on the written file,
\* decoded by the StreamArrayReader as a sequence of chunk messages.
RECURSIVE DecodeMessages(_, _)
DecodeMessages(pos, stop) ==
    IF pos >= stop THEN [ok |-> pos = stop, batches |-> <<>>]
    ELSE LET ms == {i \in 1..Len(file) :
                        /\ file[i].begin = pos
                        /\ file[i].end <= stop
                        /\ file[i].kind = "chunk"}
         IN IF ms = {} THEN [ok |-> FALSE, batches |-> <<>>]
            ELSE LET m == file[CHOOSE i \in ms : TRUE]
                     rest == DecodeMessages(m.end, stop)
                 IN [ok |-> rest.ok, batches |-> <<m.data>> \o rest.batches]

\* ArrayStreamExt::take_rows over the decoded batches: each batch yields the
\* rows the relative indices select in it, batches with none yield nothing.
\* An index past the last row of the stream is either passed over or fails
\* the stream.
RECURSIVE StreamEmit(_, _, _)
StreamEmit(batches, rel, row_offset) ==
    IF batches = <<>> THEN <<>>
    ELSE LET batch == Head(batches)
             left == search_sorted(rel, row_offset, "Left")
             right == search_sorted(rel, row_offset + Len(batch), "Left")
             shifted == subtract_scalar(slice(rel, left, right), row_offset)
             rest == StreamEmit(Tail(batches), rel, row_offset + Len(batch))
         IN IF left = right THEN rest
            ELSE <<take_primitive(batch, shifted)>> \o rest

Ok(cs) == [kind |-> "Ok", chunks |-> cs, err |-> ""]
Err(e) == [kind |-> "Err", chunks |-> <<>>, err |-> e]

StreamTakeRows(batches, rel) ==
    {Ok(StreamEmit(batches, rel, 0))}
    \cup IF \E j \in 1..Len(rel) : rel[j] >= SumLens(batches)
         THEN {Err("OutOfBounds")} ELSE {}

\* take_rows_strict_sorted, lines 92-114: the rows and bytes of range k
\* (0-based) and the indices relative to it.
RangeOf(r, co, k) ==
    LET start_chunk == co[k + 1][1].chunk_idx
        stop_chunk == Last(co[k + 1]).chunk_idx + 1
    IN [start_chunk |-> start_chunk,
        stop_chunk |-> stop_chunk,
        start_byte |-> take_primitive(r.byte_offsets, <<start_chunk>>)[1],
        stop_byte |-> take_primitive(r.byte_offsets, <<stop_chunk>>)[1],
        start_row |-> take_primitive(r.row_offsets, <<start_chunk>>)[1],
        stop_row |-> take_primitive(r.row_offsets, <<stop_chunk>>)[1]]

RelativeIndices(ix, start_row, stop_row) ==
    LET indices_start == search_sorted(ix, start_row, "Left")
        indices_stop == search_sorted(ix, stop_row, "Right")
    IN subtract_scalar(slice(ix, indices_start, indices_stop), start_row)

ReadAtEvent(rg) ==
    [ev |-> "read_at", chunk |-> rg.start_chunk,
     lo |-> rg.start_byte, hi |-> rg.stop_byte, rel |-> <<>>]

TakeRowsEvent(rg, rel) ==
    [ev |-> "take_rows", chunk |-> rg.start_chunk,
     lo |-> rg.start_row, hi |-> rg.stop_row, rel |-> rel]

\* The call returns v: its locals are dropped.
Return(v) ==
    /\ pc' = "returned"
    /\ result' = <<v>>
    /\ coalesced' = <<>>
    /\ range_idx' = 0
    /\ chunks' = <<>>

\* unimplemented!() and the panics of indexing: the task unwinds.
Panic ==
    /\ pc' = "panicked"
    /\ result' = <<>>
    /\ coalesced' = <<>>
    /\ range_idx' = 0
    /\ chunks' = <<>>

\* take_rows_strict_sorted from its entry to the first read_at_into.
TakeRowsStrictSorted(ix, fc) ==
    LET r == reader[1]
        co == coalesce_chunks(fc.chunks)
        stops == [i \in 1..Len(co) |-> Last(co[i]).chunk_idx + 1]
    IN /\ indices' = ix
       /\ IF fc.kind = "err" THEN Return(Err(fc.err)) /\ trace' = <<>>
          ELSE IF fc.kind = "panic" \/ ~TakeInBounds(r.row_offsets, stops)
          THEN Panic /\ trace' = <<>>
          ELSE IF co = <<>> THEN Return(Ok(<<>>)) /\ trace' = <<>>
          ELSE /\ pc' = "reading"
               /\ coalesced' = co
               /\ range_idx' = 0
               /\ chunks' = <<>>
               /\ result' = <<>>
               /\ trace' = <<ReadAtEvent(RangeOf(r, co, 0))>>

\* ArrayStatistics::compute_is_strict_sorted: the statistic, or None when it
\* cannot be computed.
compute_is_strict_sorted(ix) == {<<>>, <<IsStrictSorted(ix)>>}

unwrap_or(opt, default) == IF opt = <<>> THEN default ELSE opt[1]

\* ChunkedArrayReader::take_rows
TakeRows ==
    /\ reader # <<>> /\ pc = "idle"
    /\ \E ix \in IndexInputs : \E stat \in compute_is_strict_sorted(ix) :
          /\ is_strict_sorted' = stat
          /\ IF unwrap_or(stat, FALSE)
             THEN \E fc \in find_chunks(reader[1].row_offsets, ix) :
                      TakeRowsStrictSorted(ix, fc)
             ELSE indices' = ix /\ Panic /\ trace' = <<>>
    /\ UNCHANGED writerVars
    /\ UNCHANGED kernelVars
    /\ UNCHANGED reader

\* The read of the current range completes: its stream is decoded and taken
\* from, then the loop goes on to the next range's read_at_into, or the call
\* returns the chunks collected.
ReadDoneWith(out) ==
    LET r == reader[1]
        rg == RangeOf(r, coalesced, range_idx)
        rel == RelativeIndices(indices, rg.start_row, rg.stop_row)
        taken == Append(trace, TakeRowsEvent(rg, rel))
    IN IF out.kind = "Err" THEN Return(out) /\ trace' = taken
       ELSE IF range_idx + 1 < Len(coalesced)
       THEN /\ pc' = "reading"
            /\ chunks' = chunks \o out.chunks
            /\ range_idx' = range_idx + 1
            /\ trace' = Append(taken, ReadAtEvent(RangeOf(r, coalesced, range_idx + 1)))
            /\ UNCHANGED <<coalesced, result>>
       ELSE Return(Ok(chunks \o out.chunks)) /\ trace' = taken

ReadDone ==
    /\ pc = "reading"
    /\ LET rg == RangeOf(reader[1], coalesced, range_idx)
           buf == DecodeMessages(rg.start_byte, rg.stop_byte)
           rel == RelativeIndices(indices, rg.start_row, rg.stop_row)
       IN IF ~buf.ok THEN Return(Err("CorruptStream")) /\ UNCHANGED trace
          ELSE \E out \in StreamTakeRows(buf.batches, rel) : ReadDoneWith(out)
    /\ UNCHANGED writerVars
    /\ UNCHANGED kernelVars
    /\ UNCHANGED <<reader, indices, is_strict_sorted>>

\* ReadFail with the error swallowed: the chunks collected are returned.
ReadFailReturnsCollected ==
    /\ pc = "reading"
    /\ Return(Ok(chunks))
    /\ UNCHANGED writerVars
    /\ UNCHANGED kernelVars
    /\ UNCHANGED <<reader, indices, is_strict_sorted, trace>>

\* read_at_into fails: `?` returns the I/O error.
ReadFail ==
    /\ pc = "reading"
    /\ Return(Err("Io"))
    /\ UNCHANGED writerVars
    /\ UNCHANGED kernelVars
    /\ UNCHANGED <<reader, indices, is_strict_sorted, trace>>

\* The bytes read do not decode (StreamArrayReader::try_new or the stream
\* fails): `?` returns the error.
StreamFail ==
    /\ pc = "reading"
    /\ Return(Err("CorruptStream"))
    /\ UNCHANGED writerVars
    /\ UNCHANGED kernelVars
    /\ UNCHANGED <<reader, indices, is_strict_sorted, trace>>

\* The caller takes the result; the reader is ready for the next call.
CallerTakesResult ==
    /\ pc = "returned"
    /\ pc' = "idle"
    /\ indices' = <<>>
    /\ is_strict_sorted' = <<>>
    /\ trace' = <<>>
    /\ result' = <<>>
    /\ UNCHANGED writerVars
    /\ UNCHANGED kernelVars
    /\ UNCHANGED <<reader, coalesced, range_idx, chunks>>

\* ------------------------------------------------------- specification
Init ==
    /\ WriterInit
    /\ reader = <<>>
    /\ pc = "idle"
    /\ indices = <<>>
    /\ coalesced = <<>>
    /\ range_idx = 0
    /\ chunks = <<>>
    /\ is_strict_sorted = <<>>
    /\ trace = <<>>
    /\ result = <<>>
    /\ k_pc = "off"
    /\ k_in = <<>>
    /\ k_out = <<>>

Next ==
    \/ WriteContext
    \/ WriteDType
    \/ WriteChunk
    \/ FinishArray
    \/ BuildReader
    \/ TakeRows
    \/ ReadDone
    \/ ReadFail
    \/ StreamFail
    \/ CallerTakesResult

Spec == Init /\ [][Next]_vars

\* --------------------------------------------- claims on take_rows
ReadAts(t) == SelectSeq(t, LAMBDA e : e.ev = "read_at")
StreamTakes(t) == SelectSeq(t, LAMBDA e : e.ev = "take_rows")

RECURSIVE SumRel(_)
SumRel(t) == IF t = <<>> THEN 0 ELSE Len(Head(t).rel) + SumRel(Tail(t))

\* The call was given strict-sorted indices, all below the total row count.
StrictSortedInRange ==
    /\ reader # <<>>
    /\ is_strict_sorted = <<TRUE>>
    /\ \A j \in 1..Len(indices) : indices[j] < NumRows

ReturnedOk == pc = "returned" /\ result[1].kind = "Ok"

\* The reader builder's precondition on row_offsets: strictly increasing.
StrictRowOffsets == IsStrictSorted(reader[1].row_offsets)

\* The row (0-based) a value was written at.
RowOf(v) == (CHOOSE r \in 1..Len(Materialized) : Materialized[r] = v) - 1

\* The rows of the written array at the given positions.
RowsAt(ix) == [j \in 1..Len(ix) |-> Materialized[ix[j] + 1]]

\* C1: every array take_rows returns for strict-sorted in-range indices holds,
\* at position j, the element at row indices[j] of the concatenation of the
\* chunks written.
C1_TakeRowsEqualsTake ==
    (StrictSortedInRange /\ ReturnedOk)
        => Flatten(result[1].chunks) = RowsAt(indices)

\* C2: for strict-sorted in-range indices (on a reader whose row_offsets are
\* strictly increasing, as its builder asks) the returned array has
\* indices.len() rows, and over the ranges read the stream take_rows calls
\* were handed indices.len() relative indices in all.
C2_LengthAndHandedCount ==
    (StrictSortedInRange /\ StrictRowOffsets /\ ReturnedOk)
        => /\ SumLens(result[1].chunks) = Len(indices)
           /\ SumRel(StreamTakes(trace)) = Len(indices)

\* C3: every relative index handed to a range's stream lies in
\* [0, stop_row - start_row) (on a reader whose row_offsets are strictly
\* increasing, as its builder asks).
C3_RelativeIndicesInRange ==
    (reader # <<>> /\ StrictRowOffsets) => \A i \in 1..Len(trace) :
        trace[i].ev = "take_rows"
            => \A j \in 1..Len(trace[i].rel) :
                   /\ 0 <= trace[i].rel[j]
                   /\ trace[i].rel[j] < trace[i].hi - trace[i].lo

\* C4: a call whose indices are not known to be strict-sorted returns, either
\* the rows in the order of the indices or a NotImplemented error; it does
\* not panic.
C4_UnsortedFailsCleanly ==
    (pc \in {"reading", "returned", "panicked"} /\ is_strict_sorted # <<TRUE>>)
        => /\ pc = "returned"
           /\ \/ result[1] = Err("NotImplemented")
              \/ /\ result[1].kind = "Ok"
                 /\ Flatten(result[1].chunks) = RowsAt(indices)

LastIndexOutOfBounds ==
    /\ reader # <<>>
    /\ pc # "idle"
    /\ is_strict_sorted = <<TRUE>>
    /\ indices # <<>>
    /\ Last(indices) >= NumRows

\* C5: when the last of the strict-sorted indices is at or past the total row
\* count, the call returns the out-of-bounds error and has issued no read_at.
C5_OutOfBoundsBeforeAnyRead ==
    LastIndexOutOfBounds
        => /\ pc = "returned"
           /\ result = <<Err("Index out of bounds")>>
           /\ ReadAts(trace) = <<>>

C5_Witness ==
    /\ LastIndexOutOfBounds
    /\ Len(indices) >= 2
    /\ Len(reader[1].row_offsets) >= 3
    /\ indices[1] < NumRows
    /\ pc = "returned"

ReadsOneAtATime(t) ==
    \A i \in 1..Len(t) :
        /\ t[i].ev = (IF i % 2 = 1 THEN "read_at" ELSE "take_rows")
        /\ (i % 2 = 0) => t[i].chunk = t[i - 1].chunk
        /\ (i > 2 /\ i % 2 = 1) => t[i - 2].chunk < t[i].chunk

RowsAscending(out) ==
    \A i \in 1..Len(out) - 1 : RowOf(out[i]) < RowOf(out[i + 1])

\* C6: the reads of a call are issued one range at a time, in strictly
\* ascending chunk order, each range's stream taken from before the next
\* read_at; and the chunks collected follow the order of the sorted indices.
C6_AscendingReadsOrderedOutput ==
    /\ ReadsOneAtATime(trace)
    /\ pc = "reading" => RowsAscending(Flatten(chunks))
    /\ ReturnedOk => RowsAscending(Flatten(result[1].chunks))

C6_Witness ==
    /\ ReturnedOk
    /\ Len(ReadAts(trace)) = 3
    /\ Len(result[1].chunks) = 3
    /\ \E i \in 1..Len(trace) : Len(trace[i].rel) >= 2

FreshCall ==
    /\ pc = "idle" /\ indices = <<>> /\ is_strict_sorted = <<>>
    /\ coalesced = <<>> /\ range_idx = 0 /\ chunks = <<>>
    /\ trace = <<>> /\ result = <<>>

C7_FailureStep ==
    (pc = "reading" /\ pc' # "reading" /\ result' # <<>> /\ result'[1].kind = "Err")
        => /\ pc' = "returned"
           /\ result'[1].chunks = <<>>
           /\ result'[1].err \in {"Io", "CorruptStream", "OutOfBounds"}
           /\ ReadAts(trace') = ReadAts(trace)
           /\ chunks' = <<>>
           /\ reader' = reader /\ file' = file

C7_AfterFailure ==
    (pc = "returned" /\ result[1].kind = "Err")
        => /\ ReadAts(trace') = ReadAts(trace) \/ trace' = <<>>
           /\ reader' = reader /\ file' = file
           /\ pc' = "idle" => FreshCall'

C7_ReadNeverEndsOkEarly ==
    (pc = "reading" /\ pc' = "returned" /\ result'[1].kind = "Ok")
        => /\ range_idx + 1 = Len(coalesced)
           /\ Len(StreamTakes(trace')) = Len(coalesced)

\* C7: when a read or the decoding of a range fails, the call returns the
\* error without the chunks collected, issues no further read, and leaves
\* the reader as it was built; once the caller has the result, the reader
\* stands as a freshly built one.
C7_FailureReturnsErrorOnly ==
    [][C7_FailureStep /\ C7_AfterFailure /\ C7_ReadNeverEndsOkEarly]_vars

C7_Witness ==
    /\ pc = "returned"
    /\ result = <<Err("Io")>>
    /\ Len(ReadAts(trace)) >= 2
    /\ \E i \in 1..Len(trace) : trace[i].ev = "take_rows" /\ trace[i].rel # <<>>

\* =================================================== compute kernels
\* The main variables stay as constructed while a kernel is checked alone.
KernelInit(input) ==
    /\ WriterInit
    /\ reader = <<>>
    /\ pc = "idle"
    /\ indices = <<>>
    /\ is_strict_sorted = <<>>
    /\ coalesced = <<>>
    /\ range_idx = 0
    /\ chunks = <<>>
    /\ trace = <<>>
    /\ result = <<>>
    /\ k_pc = "call"
    /\ k_in = input
    /\ k_out = <<>>

mainVars == <<msgs_pos, file, view_ctx_range, array_layouts, writing, reader,
              pc, indices, is_strict_sorted, coalesced, range_idx, chunks,
              trace, result>>

SeqsUpTo(S, n) == UNION {[1..k -> S] : k \in 0..n}

\* ---------------------------------------------------------- validity
\* enum Validity { NonNullable, AllValid, AllInvalid, Array(bool array) }
NonNullable == [tag |-> "NonNullable", bits |-> <<>>]
AllValid == [tag |-> "AllValid", bits |-> <<>>]
AllInvalid == [tag |-> "AllInvalid", bits |-> <<>>]
ValidityArray(bits) == [tag |-> "Array", bits |-> bits]

\* The validities an array of n rows can be constructed with
\* (Validity::to_metadata refuses an Array of another length).
Validities(n) ==
    {NonNullable, AllValid, AllInvalid}
    \cup {ValidityArray(bits) : bits \in [1..n -> BOOLEAN]}

\* Validity::is_valid(index)
is_valid(v, index) ==
    CASE v.tag \in {"NonNullable", "AllValid"} -> TRUE
      [] v.tag = "AllInvalid" -> FALSE
      [] OTHER -> v.bits[index + 1]

\* Statistics of a bool array: the minimum and maximum, None when empty.
compute_min(bits) ==
    IF bits = <<>> THEN <<>> ELSE <<\A i \in 1..Len(bits) : bits[i]>>

compute_max(bits) ==
    IF bits = <<>> THEN <<>> ELSE <<\E i \in 1..Len(bits) : bits[i]>>

\* Option::map(|m| !m)
map_not(opt) == IF opt = <<>> THEN <<>> ELSE <<~opt[1]>>

\* enum LogicalValidity { AllValid(len), AllInvalid(len), Array(data) }
LogicalAllValid(n) == [tag |-> "AllValid", len |-> n, bits |-> <<>>]
LogicalAllInvalid(n) == [tag |-> "AllInvalid", len |-> n, bits |-> <<>>]
LogicalArray(bits) == [tag |-> "Array", len |-> Len(bits), bits |-> bits]

\* Validity::to_logical(length)
to_logical(v, length) ==
    CASE v.tag \in {"NonNullable", "AllValid"} -> LogicalAllValid(length)
      [] v.tag = "AllInvalid" -> LogicalAllInvalid(length)
      [] OTHER ->
            IF unwrap_or(compute_min(v.bits), FALSE)
            THEN LogicalAllValid(length)
            ELSE IF unwrap_or(map_not(compute_max(v.bits)), FALSE)
            THEN LogicalAllInvalid(length)
            ELSE LogicalArray(v.bits)

\* LogicalValidity::to_null_buffer: None when all valid.
to_null_buffer(lv) ==
    CASE lv.tag = "AllValid" -> <<>>
      [] lv.tag = "AllInvalid" -> <<[i \in 1..lv.len |-> FALSE]>>
      [] OTHER -> <<lv.bits>>

\* ----------------------------------------------------- bool compare
\* BooleanBuffer's bitwise operators
bitxor(x, y) == [i \in 1..Len(x) |-> x[i] # y[i]]
bitand(x, y) == [i \in 1..Len(x) |-> x[i] /\ y[i]]
bitor(x, y) == [i \in 1..Len(x) |-> x[i] \/ y[i]]
not(x) == [i \in 1..Len(x) |-> ~x[i]]

Operators ==
    {"EqualTo", "NotEqualTo", "GreaterThan", "GreaterThanOrEqualTo",
     "LessThan", "LessThanOrEqualTo"}

\* array::bool::apply_comparison_op
apply_comparison_op(lhs, rhs, op) ==
    CASE op = "EqualTo" -> not(bitxor(lhs, rhs))
      [] op = "NotEqualTo" -> bitxor(lhs, rhs)
      [] op = "GreaterThan" -> bitand(lhs, not(rhs))
      [] op = "GreaterThanOrEqualTo" -> bitor(lhs, not(rhs))
      [] op = "LessThan" -> bitand(not(lhs), rhs)
      [] op = "LessThanOrEqualTo" -> bitor(not(lhs), rhs)

\* compare_result_buf with >= computed as a & ~b.
compare_result_buf_ge_as_gt(lhs, rhs, op) ==
    CASE op = "EqualTo" -> not(bitxor(lhs, rhs))
      [] op = "NotEqualTo" -> bitxor(lhs, rhs)
      [] op = "GreaterThan" -> bitand(lhs, not(rhs))
      [] op = "GreaterThanOrEqualTo" -> bitand(lhs, not(rhs))
      [] op = "LessThan" -> bitand(not(lhs), rhs)
      [] op = "LessThanOrEqualTo" -> bitor(not(lhs), rhs)

\* The match of BoolArray::compare (its own copy of the formulas).
compare_result_buf(lhs, rhs, op) ==
    CASE op = "EqualTo" -> not(bitxor(lhs, rhs))
      [] op = "NotEqualTo" -> bitxor(lhs, rhs)
      [] op = "GreaterThan" -> bitand(lhs, not(rhs))
      [] op = "GreaterThanOrEqualTo" -> bitor(lhs, not(rhs))
      [] op = "LessThan" -> bitand(not(lhs), rhs)
      [] op = "LessThanOrEqualTo" -> bitor(not(lhs), rhs)

BoolArray(buffer, validity) == [buffer |-> buffer, validity |-> validity]

\* <BoolArray as CompareFn>::compare
compare(self, other, op) ==
    LET lhs == self.buffer
        rhs == other.buffer
        result_buf == compare_result_buf(lhs, rhs, op)
        nulls == to_null_buffer(to_logical(self.validity, Len(self.buffer)))
    IN BoolArray(IF nulls = <<>> THEN result_buf ELSE bitand(result_buf, nulls[1]),
                 NonNullable)

\* The bool arrays of n rows that BoolArray::from_vec constructs.
BoolArrays(n) ==
    {BoolArray(buffer, v) : buffer \in [1..n -> BOOLEAN], v \in Validities(n)}

\* Two bool arrays of equal length, at most MaxLen rows, each with any
\* validity, and any of the six operators.
InitCompare ==
    \E n \in 0..MaxLen :
        \E a \in BoolArrays(n) : \E b \in BoolArrays(n) : \E op \in Operators :
            KernelInit([a |-> a, b |-> b, op |-> op])

CompareCall ==
    /\ k_pc = "call"
    /\ k_out' = <<compare(k_in.a, k_in.b, k_in.op)>>
    /\ k_pc' = "done"
    /\ UNCHANGED k_in
    /\ UNCHANGED mainVars

SpecCompare == InitCompare /\ [][CompareCall]_vars

\* ----------------------------------------------- claims on compare
\* The truth of a[i] op b[i] under the ordering false < true.
Ord(x) == IF x THEN 1 ELSE 0

OpHolds(op, x, y) ==
    CASE op = "EqualTo" -> Ord(x) = Ord(y)
      [] op = "NotEqualTo" -> Ord(x) # Ord(y)
      [] op = "GreaterThan" -> Ord(x) > Ord(y)
      [] op = "GreaterThanOrEqualTo" -> Ord(x) >= Ord(y)
      [] op = "LessThan" -> Ord(x) < Ord(y)
      [] op = "LessThanOrEqualTo" -> Ord(x) <= Ord(y)

EntirelyValid(arr) ==
    \A i \in 0..Len(arr.buffer) - 1 : is_valid(arr.validity, i)

\* C8: bit i of compare(a, b, op) is set iff a[i] op b[i] holds and both a[i]
\* and b[i] are valid.
C8_CompareRespectsBothValidities ==
    k_pc = "done"
        => /\ Len(k_out[1].buffer) = Len(k_in.a.buffer)
           /\ \A i \in 0..Len(k_in.a.buffer) - 1 :
                 k_out[1].buffer[i + 1] =
                    (/\ OpHolds(k_in.op, k_in.a.buffer[i + 1], k_in.b.buffer[i + 1])
                     /\ is_valid(k_in.a.validity, i)
                     /\ is_valid(k_in.b.validity, i))

\* C9: on two entirely valid bool arrays, the bitwise formulas of compare (and
\* of apply_comparison_op) give at every position the truth of a[i] op b[i]
\* under false < true.
C9_BitwiseFormulasAreTheOrdering ==
    (k_pc = "done" /\ EntirelyValid(k_in.a) /\ EntirelyValid(k_in.b))
        => /\ Len(k_out[1].buffer) = Len(k_in.a.buffer)
           /\ \A i \in 1..Len(k_in.a.buffer) :
                 /\ k_out[1].buffer[i] =
                        OpHolds(k_in.op, k_in.a.buffer[i], k_in.b.buffer[i])
                 /\ apply_comparison_op(k_in.a.buffer, k_in.b.buffer, k_in.op)[i] =
                        OpHolds(k_in.op, k_in.a.buffer[i], k_in.b.buffer[i])

C9_Witness ==
    /\ k_pc = "done"
    /\ EntirelyValid(k_in.a) /\ EntirelyValid(k_in.b)
    /\ k_in.op = "GreaterThanOrEqualTo"
    /\ k_in.a.validity.tag = "Array"
    /\ k_in.a.buffer = <<FALSE, TRUE>>
    /\ k_in.b.buffer = <<FALSE, FALSE>>
    /\ k_out[1].buffer = <<TRUE, TRUE>>

\* --------------------------------------------------- primitive take
PrimitiveArray(values, validity) == [values |-> values, validity |-> validity]

\* Validity::take(indices): the compact variants as they are, an Array by
\* take on the bool array.
validity_take(v, idx) ==
    IF v.tag = "Array" THEN ValidityArray(take_primitive(v.bits, idx)) ELSE v

\* <PrimitiveArray as TakeFn>::take
take(self, idx) ==
    PrimitiveArray(take_primitive(self.values, idx),
                   validity_take(self.validity, idx))

\* The values of the arrays taken from.
PrimValues == {5, 6, 7}

\* Arrays of at most MaxLen rows with every validity, and index arrays of at
\* most MaxIndices entries over the rows and the first position past them.
InitTake ==
    \E n \in 0..MaxLen :
        \E values \in [1..n -> PrimValues] : \E v \in Validities(n) :
            \E idx \in SeqsUpTo(0..n, MaxIndices) :
                KernelInit([a |-> PrimitiveArray(values, v), idx |-> idx])

\* take on a primitive array: indexing past the end panics.
TakeCall ==
    /\ k_pc = "call"
    /\ IF TakeInBounds(k_in.a.values, k_in.idx)
       THEN /\ k_out' = <<take(k_in.a, k_in.idx)>>
            /\ k_pc' = "done"
       ELSE /\ k_out' = <<>>
            /\ k_pc' = "panicked"
    /\ UNCHANGED k_in
    /\ UNCHANGED mainVars

SpecTake == InitTake /\ [][TakeCall]_vars

\* compute::scalar_at: the element, or null where the array is not valid.
scalar_at(arr, i) ==
    IF is_valid(arr.validity, i) THEN <<arr.values[i + 1]>> ELSE <<>>

\* C10: for indices all in [0, a.len()), in any order and with repeats,
\* take(a, idx) has idx.len() elements and its j-th is a[idx[j]].
C10_TakeIsElementwise ==
    (k_pc # "call" /\ TakeInBounds(k_in.a.values, k_in.idx))
        => /\ k_pc = "done"
           /\ Len(k_out[1].values) = Len(k_in.idx)
           /\ \A j \in 0..Len(k_in.idx) - 1 :
                 scalar_at(k_out[1], j) = scalar_at(k_in.a, k_in.idx[j + 1])

C10_Witness ==
    /\ k_pc = "done"
    /\ k_in.idx = <<1, 0, 1>>
    /\ k_in.a.values = <<5, 7>>
    /\ k_in.a.validity = ValidityArray(<<FALSE, TRUE>>)
    /\ k_out[1].values = <<7, 5, 7>>

\* C11: take on a primitive array with an index at or past a.len() returns
\* an OutOfBounds error value; it neither panics nor returns an array.
C11_TakeOutOfBoundsReturnsError ==
    (k_pc # "call" /\ ~TakeInBounds(k_in.a.values, k_in.idx))
        => /\ k_pc = "done"
           /\ k_out = <<Err("OutOfBounds")>>

\* ================================================================ dtype
\* enum Nullability { NonNullable, Nullable }
Nullability == {"NonNullable", "Nullable"}

PTypes == {"U64", "I32"}

\* enum DType { Null, Bool(n), Primitive(ptype, n), Utf8(n), Binary(n),
\*              Struct(st, n), List(elem, n), Extension(ext, n) }
\* One record shape for all variants: the fields a variant lacks are empty.
DTypeOf(tag, ptype, dtypes, n) ==
    [tag |-> tag, ptype |-> ptype, dtypes |-> dtypes, nullability |-> n]

Null == DTypeOf("Null", "", <<>>, "")
Bool(n) == DTypeOf("Bool", "", <<>>, n)
Primitive(ptype, n) == DTypeOf("Primitive", ptype, <<>>, n)
Utf8(n) == DTypeOf("Utf8", "", <<>>, n)
Binary(n) == DTypeOf("Binary", "", <<>>, n)
Struct(dtypes, n) == DTypeOf("Struct", "", dtypes, n)
List(elem, n) == DTypeOf("List", "", <<elem>>, n)
Extension(n) == DTypeOf("Extension", "", <<>>, n)

\* DType::is_nullable
RECURSIVE is_nullable(_)
is_nullable(self) ==
    CASE self.tag = "Null" -> TRUE
      [] self.tag = "Struct" ->
            \A f \in 1..Len(self.dtypes) : is_nullable(self.dtypes[f])
      [] OTHER -> self.nullability = "Nullable"

\* DType::nullability: is_nullable().into()
nullability(self) == IF is_nullable(self) THEN "Nullable" ELSE "NonNullable"

\* The dtypes without fields, and the lists of them.
LeafDTypes ==
    {Null}
    \cup {Bool(n) : n \in Nullability}
    \cup {Primitive(p, n) : p \in PTypes, n \in Nullability}
    \cup {Utf8(n) : n \in Nullability}
    \cup {Binary(n) : n \in Nullability}
    \cup {Extension(n) : n \in Nullability}

ListDTypes == {List(e, n) : e \in LeafDTypes, n \in Nullability}

\* Structs of at most MaxFields fields over the dtypes F, with either tag.
MaxFields == 2

StructsOver(F) ==
    UNION {{Struct(fs, n) : fs \in [1..k -> F], n \in Nullability} :
           k \in 0..MaxFields}

\* The fields of the structs that hold structs.
InnerStructs == StructsOver({Bool("NonNullable"), Bool("Nullable")})

\* A dtype is handed to is_nullable and nullability: a leaf, a list, a struct
\* of leaves, or a struct of structs.
InitDType ==
    \/ \E d \in LeafDTypes \cup ListDTypes : KernelInit([dtype |-> d])
    \/ \E k \in 0..MaxFields : \E n \in Nullability :
          \/ \E fs \in [1..k -> LeafDTypes] : KernelInit([dtype |-> Struct(fs, n)])
          \/ \E fs \in [1..k -> InnerStructs] : KernelInit([dtype |-> Struct(fs, n)])

NullabilityCall ==
    /\ k_pc = "call"
    /\ k_out' = <<[is_nullable |-> is_nullable(k_in.dtype),
                   nullability |-> nullability(k_in.dtype)]>>
    /\ k_pc' = "done"
    /\ UNCHANGED k_in
    /\ UNCHANGED mainVars

SpecDType == InitDType /\ [][NullabilityCall]_vars

\* C15: is_nullable of a Struct is true iff its own tag is Nullable or all of
\* its fields are nullable, and nullability() of a Struct marked Nullable is
\* Nullable whatever its fields.
C15_StructNullableByTagOrFields ==
    (k_pc = "done" /\ k_in.dtype.tag = "Struct")
        => /\ k_out[1].is_nullable =
                (\/ k_in.dtype.nullability = "Nullable"
                 \/ \A f \in 1..Len(k_in.dtype.dtypes) :
                        is_nullable(k_in.dtype.dtypes[f]))
           /\ k_in.dtype.nullability = "Nullable"
                => k_out[1].nullability = "Nullable"

\* ================================================================= cast
\* An array as the cast dispatcher sees it: its encoding id, its dtype, what
\* ArrayCompute::cast() answers for its encoding (None, or a CastFn with the
\* outcome of its cast), and the same for the encoding it flattens to.
EncodingIds == {"vortex.primitive", "vortex.datetimeparts"}

CastFnOutcomes == {"Ok", "Err"}

OptionCastFn == {<<>>} \cup {<<f>> : f \in CastFnOutcomes}

CastOk(array) == [kind |-> "Ok", array |-> <<array>>, err |-> "", op |-> "", id |-> ""]

vortex_err(e, op, id) == [kind |-> "Err", array |-> <<>>, err |-> e, op |-> op, id |-> id]

\* CastFn::cast of an encoding that implements it.
CastFn_cast(f, array, dtype) ==
    IF f = "Ok" THEN CastOk([array EXCEPT !.dtype = dtype])
    ELSE vortex_err("ComputeError", "cast", array.encoding)

\* compute::cast
cast(array, dtype) ==
    IF array.dtype = dtype THEN CastOk(array)
    ELSE IF array.cast # <<>>
         THEN CastFn_cast(array.cast[1], array, dtype)
         ELSE vortex_err("NotImplemented", "cast", array.encoding)

InitCast ==
    \E id \in EncodingIds : \E from \in LeafDTypes : \E to \in LeafDTypes :
        \E f \in OptionCastFn : \E ff \in OptionCastFn :
            KernelInit([array |-> [encoding |-> id, dtype |-> from,
                                   cast |-> f, flat_cast |-> ff],
                        dtype |-> to])

CastCall ==
    /\ k_pc = "call"
    /\ k_out' = <<cast(k_in.array, k_in.dtype)>>
    /\ k_pc' = "done"
    /\ UNCHANGED k_in
    /\ UNCHANGED mainVars

SpecCast == InitCast /\ [][CastCall]_vars

\* C12: when the dtype differs from the target and the array's own encoding
\* has no cast, the result is that of the flat encoding's cast, and
\* NotImplemented only if the flat encoding has none either.
C12_CastFallsBackToFlatten ==
    (/\ k_pc = "done"
     /\ k_in.array.dtype # k_in.dtype
     /\ k_in.array.cast = <<>>)
        => /\ k_out[1].err = "NotImplemented" => k_in.array.flat_cast = <<>>
           /\ k_in.array.flat_cast # <<>> =>
                k_out[1].kind = CastFn_cast(k_in.array.flat_cast[1],
                                            k_in.array, k_in.dtype).kind

\* ================================================ validity construction
\* The longest boolean vector a Validity is constructed from.
MaxBits == 5

\* BooleanBuffer::count_set_bits
count_set_bits(value) == Cardinality({i \in 1..Len(value) : value[i]})

\* impl From<Vec<bool>> for Validity
from_vec_bool(bools) ==
    IF \A i \in 1..Len(bools) : bools[i] THEN AllValid
    ELSE IF ~(\E i \in 1..Len(bools) : bools[i]) THEN AllInvalid
    ELSE ValidityArray(BoolArray(bools, NonNullable).buffer)

\* From<BooleanBuffer> with the no-bit-set test made first.
from_boolean_buffer_invalid_first(value) ==
    IF count_set_bits(value) = 0 THEN AllInvalid
    ELSE IF count_set_bits(value) = Len(value) THEN AllValid
    ELSE ValidityArray(value)

\* impl From<BooleanBuffer> for Validity
from_boolean_buffer(value) ==
    IF count_set_bits(value) = Len(value) THEN AllValid
    ELSE IF count_set_bits(value) = 0 THEN AllInvalid
    ELSE ValidityArray(value)

\* impl From<NullBuffer> for Validity: value.into_inner().into()
from_null_buffer(value) == from_boolean_buffer(value)

Constructors == {"Vec<bool>", "BooleanBuffer", "NullBuffer"}

InitFrom ==
    \E n \in 0..MaxBits : \E bools \in [1..n -> BOOLEAN] : \E c \in Constructors :
        KernelInit([from |-> c, bools |-> bools])

FromCall ==
    /\ k_pc = "call"
    /\ k_out' = <<CASE k_in.from = "Vec<bool>" -> from_vec_bool(k_in.bools)
                    [] k_in.from = "BooleanBuffer" -> from_boolean_buffer(k_in.bools)
                    [] k_in.from = "NullBuffer" -> from_null_buffer(k_in.bools)>>
    /\ k_pc' = "done"
    /\ UNCHANGED k_in
    /\ UNCHANGED mainVars

SpecFrom == InitFrom /\ [][FromCall]_vars

\* C13: a Validity constructed from a boolean vector or buffer is AllValid
\* when every entry is true (the empty input included), else AllInvalid when
\* every entry is false, and otherwise Array(v) with v of the input's length
\* and v[i] the i-th input bit; it is never NonNullable.
C13_FromBoolsCompacts ==
    k_pc = "done"
        => LET b == k_in.bools
               out == k_out[1]
               allTrue == \A i \in 1..Len(b) : b[i]
               allFalse == \A i \in 1..Len(b) : ~b[i]
           IN /\ out.tag # "NonNullable"
              /\ allTrue => out = AllValid
              /\ (~allTrue /\ allFalse) => out = AllInvalid
              /\ (~allTrue /\ ~allFalse)
                    => /\ out.tag = "Array"
                       /\ Len(out.bits) = Len(b)
                       /\ \A i \in 1..Len(b) : out.bits[i] = b[i]

C13_Witness ==
    /\ k_pc = "done"
    /\ k_in.from = "NullBuffer"
    /\ k_in.bools = <<TRUE, FALSE, TRUE>>
    /\ k_out = <<ValidityArray(<<TRUE, FALSE, TRUE>>)>>

\* ================================================== validity round trip
\* LogicalValidity::to_present_null_buffer
to_present_null_buffer(lv) ==
    CASE lv.tag = "AllValid" -> [i \in 1..lv.len |-> TRUE]
      [] lv.tag = "AllInvalid" -> [i \in 1..lv.len |-> FALSE]
      [] OTHER -> lv.bits

\* impl PartialEq for Validity
eq(self, other) ==
    CASE self.tag = "NonNullable" /\ other.tag = "NonNullable" -> TRUE
      [] self.tag = "AllValid" /\ other.tag = "AllValid" -> TRUE
      [] self.tag = "AllInvalid" /\ other.tag = "AllInvalid" -> TRUE
      [] self.tag = "Array" /\ other.tag = "Array" -> self.bits = other.bits
      [] OTHER -> FALSE

\* A validity of any variant with a matching length: an Array has the
\* length's bits, a compact variant goes with any length.
InitRoundTrip ==
    \E n \in 0..MaxBits : \E x \in Validities(n) :
        KernelInit([x |-> x, n |-> n])

\* Validity::from(x.to_logical(n).to_present_null_buffer())
RoundTripCall ==
    /\ k_pc = "call"
    /\ k_out' = <<from_null_buffer(to_present_null_buffer(to_logical(k_in.x, k_in.n)))>>
    /\ k_pc' = "done"
    /\ UNCHANGED k_in
    /\ UNCHANGED mainVars

SpecRoundTrip == InitRoundTrip /\ [][RoundTripCall]_vars

\* A validity compacted as construction compacts: an Array of all-true bits is
\* AllValid, of all-false bits AllInvalid; the other variants stand.
Compacted(x) == IF x.tag = "Array" THEN from_boolean_buffer(x.bits) ELSE x

\* C14: for a Validity x of any of the four variants and a matching length
\* n, Validity::from(x.to_logical(n).to_present_null_buffer()) equals x after
\* compaction.
C14_RoundTripIsIdentity ==
    k_pc = "done" => eq(k_out[1], Compacted(k_in.x))

\* ------------------------------------------- claims on the writer's layout
\* The chunk messages the writer put in the file for an array layout.
ChunkMessagesOf(layout) ==
    SelectSeq(file, LAMBDA m : /\ m.kind = "chunk"
                               /\ m.begin >= layout.chunks.byte_offsets[1]
                               /\ m.end <= Last(layout.chunks.byte_offsets))

\* C16: for every array written (chunks of length zero included), row_offsets
\* and byte_offsets both have length chunks+1 and are strictly increasing, and
\* row_offsets starts at 0.
C16_OffsetsStrictlyIncreasing ==
    \A a \in 1..Len(array_layouts) :
        LET layout == array_layouts[a]
            n == Len(ChunkMessagesOf(layout))
        IN /\ Len(layout.chunks.row_offsets) = n + 1
           /\ Len(layout.chunks.byte_offsets) = n + 1
           /\ layout.chunks.row_offsets[1] = 0
           /\ IsStrictSorted(layout.chunks.row_offsets)
           /\ IsStrictSorted(layout.chunks.byte_offsets)

\* ------------------------------------------ the writer over several arrays
\* The most messages a writer puts in its file.
MaxMessages == 6

\* write_array / write_array_stream of a further array: write_dtype.
WriteArrayDType ==
    /\ Len(file) < MaxMessages
    /\ WriteDTypeStep

\* One more chunk of the stream of the array being written.
WriteArrayChunk ==
    /\ reader = <<>> /\ writing # <<>>
    /\ Len(file) < MaxMessages
    /\ \E n \in 0..MaxChunkLen : WriteChunkStep(writing[1], n)
    /\ UNCHANGED <<view_ctx_range, array_layouts, reader>>
    /\ UNCHANGED callVars
    /\ UNCHANGED kernelVars

NextWriter ==
    \/ WriteContext
    \/ WriteArrayDType
    \/ WriteArrayChunk
    \/ FinishArray

SpecWriter == Init /\ [][NextWriter]_vars

\* The chunk messages of a layout lie at [byte_offsets[i], byte_offsets[i+1]).
ChunksAtByteOffsets(layout) ==
    LET ms == ChunkMessagesOf(layout)
        bo == layout.chunks.byte_offsets
    IN /\ Len(ms) = Len(bo) - 1
       /\ \A i \in 1..Len(ms) : ms[i].begin = bo[i] /\ ms[i].end = bo[i + 1]

\* C17: after any sequence of write_context and write_array calls, the view
\* context range ends at or before the dtype range of every array layout,
\* each dtype range ends where the array's first chunk begins, the chunk
\* messages lie at the byte_offsets, and successive layouts do not overlap.
C17_ContextThenArraysInOrder ==
    \A a \in 1..Len(array_layouts) :
        LET layout == array_layouts[a]
        IN /\ view_ctx_range # <<>>
                => view_ctx_range[1].end <= layout.dtype.begin
           /\ layout.dtype.begin <= layout.dtype.end
           /\ layout.dtype.end = layout.chunks.byte_offsets[1]
           /\ ChunksAtByteOffsets(layout)
           /\ \A b \in 1..Len(array_layouts) :
                 a < b => Last(layout.chunks.byte_offsets)
                              <= array_layouts[b].dtype.begin

\* ================================================== BoolArray::try_new
TryOk(v) == [kind |-> "Ok", value |-> <<v>>, err |-> ""]

vortex_bail(msg) == [kind |-> "Err", value |-> <<>>, err |-> msg]

\* to_metadata without the test of the validity array's length.
to_metadata_unchecked(v, length) == TryOk(v.tag)

\* Validity::to_metadata(length)
to_metadata(v, length) ==
    IF v.tag = "Array" /\ Len(v.bits) # length
    THEN vortex_bail("Validity array length doesn't match array length")
    ELSE TryOk(v.tag)

\* BoolArray::try_new: the ? on to_metadata returns its error.
try_new(buffer, validity) ==
    LET metadata == to_metadata(validity, Len(buffer))
    IN IF metadata.kind = "Err" THEN metadata
       ELSE TryOk(BoolArray(buffer, validity))

\* A value buffer of at most MaxLen bits, and a validity of any variant, an
\* Array of any length up to MaxLen, through try_new or from_vec.
InitTryNew ==
    \E n \in 0..MaxLen : \E buffer \in [1..n -> BOOLEAN] :
        \E m \in 0..MaxLen : \E validity \in Validities(m) :
            \E c \in {"try_new", "from_vec"} :
                KernelInit([fn |-> c, buffer |-> buffer, validity |-> validity])

\* BoolArray::try_new, or BoolArray::from_vec: try_new(..).unwrap()
TryNewCall ==
    /\ k_pc = "call"
    /\ LET r == try_new(k_in.buffer, k_in.validity)
       IN IF k_in.fn = "from_vec" /\ r.kind = "Err"
          THEN k_pc' = "panicked" /\ k_out' = <<>>
          ELSE k_pc' = "done" /\ k_out' = <<r>>
    /\ UNCHANGED k_in
    /\ UNCHANGED mainVars

SpecTryNew == InitTryNew /\ [][TryNewCall]_vars

\* C18: try_new with validity Array(v) succeeds only when v's length is the
\* value buffer's, and otherwise returns an error without an array; the
\* compact variants are accepted for any length; every BoolArray built by
\* try_new or from_vec whose validity is Array(v) has len(v) = len(array).
C18_ValidityLengthMatches ==
    k_pc # "call"
        => LET mismatch == /\ k_in.validity.tag = "Array"
                           /\ Len(k_in.validity.bits) # Len(k_in.buffer)
               built == k_pc = "done" /\ k_out[1].kind = "Ok"
           IN /\ built = ~mismatch
              /\ (k_in.fn = "try_new" /\ mismatch)
                    => k_pc = "done" /\ k_out[1].kind = "Err" /\ k_out[1].value = <<>>
              /\ built
                    => LET array == k_out[1].value[1]
                       IN /\ array.buffer = k_in.buffer
                          /\ array.validity.tag = "Array"
                                => Len(array.validity.bits) = Len(array.buffer)

C18_Witness ==
    /\ k_pc = "done"
    /\ k_in.fn = "try_new"
    /\ k_in.buffer = <<TRUE, FALSE>>
    /\ k_in.validity = ValidityArray(<<TRUE>>)
    /\ k_out[1].kind = "Err"

\* ==================================================== find_chunks alone
\* The row_offsets the writer records for chunks of the given lengths.
RECURSIVE RowOffsetsOf(_)
RowOffsetsOf(lens) ==
    IF lens = <<>> THEN <<0>>
    ELSE LET before == RowOffsetsOf(SubSeq(lens, 1, Len(lens) - 1))
         IN Append(before, Last(before) + Last(lens))

\* find_chunks is handed the row_offsets of at most MaxChunks chunks of at
\* most MaxChunkLen rows, and strict-sorted indices of at most MaxIndices
\* entries over the rows and the first row past the end.
InitFindChunks ==
    \E k \in 0..MaxChunks : \E lens \in [1..k -> 0..MaxChunkLen] :
        LET ro == RowOffsetsOf(lens)
        IN \E S \in SUBSET (0..Last(ro)) :
              /\ Cardinality(S) <= MaxIndices
              /\ KernelInit([row_offsets |-> ro, indices |-> SortedSeq(S)])

FindChunksCall ==
    /\ k_pc = "call"
    /\ \E r \in find_chunks(k_in.row_offsets, k_in.indices) :
          /\ k_out' = <<r>>
          /\ k_pc' = IF r.kind = "panic" THEN "panicked" ELSE "done"
    /\ UNCHANGED k_in
    /\ UNCHANGED mainVars

SpecFindChunks == InitFindChunks /\ [][FindChunksCall]_vars

\* The chunk (0-based) whose half-open row range holds the row v.
ContainingChunk(row_offsets, v) ==
    CHOOSE c \in 0..Len(row_offsets) - 2 :
        row_offsets[c + 1] <= v /\ v < row_offsets[c + 2]

\* C19: for strictly increasing row_offsets starting at 0 and strict-sorted
\* in-range indices, find_chunks gives every index to the one chunk whose row
\* range holds it, returns one ChunkIndices per chunk holding an index and
\* none for another, ascending by chunk_idx, and the position ranges are
\* non-empty, pairwise disjoint and cover exactly [0, indices.len()).
C19_FindChunksPartitionsIndices ==
    (/\ k_pc # "call"
     /\ IsStrictSorted(k_in.row_offsets)
     /\ k_in.row_offsets[1] = 0
     /\ \A j \in 1..Len(k_in.indices) : k_in.indices[j] < Last(k_in.row_offsets))
        => /\ k_pc = "done"
           /\ k_out[1].kind = "ok"
           /\ LET ro == k_in.row_offsets
                  ix == k_in.indices
                  cs == k_out[1].chunks
              IN /\ \A p \in 0..Len(ix) - 1 :
                       \E e \in 1..Len(cs) :
                          /\ cs[e].indices_start <= p /\ p < cs[e].indices_stop
                          /\ cs[e].chunk_idx = ContainingChunk(ro, ix[p + 1])
                          /\ \A o \in 1..Len(cs) :
                                (cs[o].indices_start <= p /\ p < cs[o].indices_stop)
                                    => o = e
                 /\ \A e \in 1..Len(cs) :
                       /\ cs[e].indices_start < cs[e].indices_stop
                       /\ cs[e].indices_stop <= Len(ix)
                       /\ \E p \in 1..Len(ix) :
                             ContainingChunk(ro, ix[p]) = cs[e].chunk_idx
                 /\ \A e \in 1..Len(cs) - 1 :
                       cs[e].chunk_idx < cs[e + 1].chunk_idx

C19_Witness ==
    /\ k_pc = "done"
    /\ k_in.row_offsets = <<0, 2, 3, 5>>
    /\ k_in.indices = <<1, 3, 4>>
    /\ k_out[1].chunks =
          <<[chunk_idx |-> 0, indices_start |-> 0, indices_stop |-> 1],
            [chunk_idx |-> 2, indices_start |-> 1, indices_stop |-> 3]>>

\* --------------------------------------------- claims on the reads issued
\* The chunks (0-based) that hold at least one of the requested rows.
NeededChunks(row_offsets, ix) ==
    {c \in 0..Len(row_offsets) - 2 :
        \E j \in 1..Len(ix) :
            row_offsets[c + 1] <= ix[j] /\ ix[j] < row_offsets[c + 2]}

\* C20: a take_rows call with strict-sorted in-range indices issues exactly
\* one read_at per chunk that holds a requested index, each of exactly the
\* bytes [byte_offsets[c], byte_offsets[c+1]); the byte ranges read are
\* pairwise disjoint and no chunk without a requested index is read.
C20_OneReadPerNeededChunk ==
    (StrictSortedInRange /\ ReturnedOk)
        => LET r == reader[1]
               reads == ReadAts(trace)
               needed == NeededChunks(r.row_offsets, indices)
           IN /\ Len(reads) = Cardinality(needed)
              /\ \A i \in 1..Len(reads) :
                    /\ reads[i].chunk \in needed
                    /\ reads[i].lo = r.byte_offsets[reads[i].chunk + 1]
                    /\ reads[i].hi = r.byte_offsets[reads[i].chunk + 2]
              /\ \A i \in 1..Len(reads) : \A j \in 1..Len(reads) :
                    i < j => \/ reads[i].hi <= reads[j].lo
                             \/ reads[j].hi <= reads[i].lo

\* ------------------------------------- claims on the offsets of a stream
\* The positions in the file of the dtype messages, in the order written:
\* the a-th opens the a-th array.
DTypePositions == SortedSeq({i \in 1..Len(file) : file[i].kind = "dtype"})

\* The chunk messages of the a-th array, in stream order: the run of chunk
\* messages that follows its dtype message.
StreamChunksOf(a) ==
    LET start == DTypePositions[a]
        run == {i \in start + 1..Len(file) :
                    \A j \in start + 1..i : file[j].kind = "chunk"}
    IN [i \in 1..Cardinality(run) |-> file[start + i]]

\* The offsets recorded for a stream are those of its chunks ms.
OffsetsFollowChunks(row_offsets, byte_offsets, ms) ==
    /\ Len(row_offsets) = Len(ms) + 1
    /\ Len(byte_offsets) = Len(ms) + 1
    /\ row_offsets[1] = 0
    /\ \A i \in 1..Len(ms) :
          /\ row_offsets[i + 1] = row_offsets[i] + Len(ms[i].data)
          /\ byte_offsets[i] = ms[i].begin
          /\ byte_offsets[i + 1] = ms[i].end
    /\ Last(row_offsets) = SumLens([i \in 1..Len(ms) |-> ms[i].data])

\* C21: for every stream of chunks written, row_offsets are the exclusive
\* prefix sums of the chunk lengths in stream order (row_offsets[0] = 0,
\* row_offsets[i+1] = row_offsets[i] + len(chunk i), the last entry the total
\* of rows written), byte_offsets[i] is the writer position before chunk i
\* and byte_offsets[chunks] the position after the last chunk.
C21_OffsetsArePrefixSums ==
    /\ \A a \in 1..Len(array_layouts) :
          OffsetsFollowChunks(array_layouts[a].chunks.row_offsets,
                              array_layouts[a].chunks.byte_offsets,
                              StreamChunksOf(a))
    /\ writing # <<>>
          => /\ OffsetsFollowChunks(writing[1].row_offsets,
                                    writing[1].byte_offsets,
                                    StreamChunksOf(Len(array_layouts) + 1))
             /\ Last(writing[1].byte_offsets) = msgs_pos

C21_Witness ==
    /\ Len(array_layouts) = 2
    /\ array_layouts[2].chunks.row_offsets = <<0, 2, 2, 3>>
    /\ Len(StreamChunksOf(2)) = 3
    /\ view_ctx_range = <<>>

====
